---- MODULE Spec2Model ----
(***************************************************************************)
(* Model of expo-session-capture.                                          *)
(*                                                                         *)
(* The capture engine (src/src/captureManager.ts, class CaptureManager) is *)
(* a single-threaded, event-driven object.  Each public method, each timer *)
(* callback and each settlement of an awaited promise (screenshot, upload) *)
(* runs to completion, so each is one atomic action here.  The methods are *)
(* written as operators on a record holding the object's fields and the    *)
(* host environment (armed timers, screenshots and uploads in flight), so  *)
(* that a method calling another (stop -> flush) composes as in the code.  *)
(*                                                                         *)
(* A frame is its timestamp plus an identity, an event is its identity:    *)
(* the identities (nextFrameId, nextEventId) are not in the code, they let *)
(* the properties follow every appended item.  uploads keeps every         *)
(* UploadPayload ever handed to fetch, pending or settled.  The clock is   *)
(* Date.now(), taken as non-decreasing.                                    *)
(***************************************************************************)
EXTENDS Integers, Sequences, FiniteSets, TLC

\* ── Bounds of the model ───────────────────────────────────────────────
MaxFramesBound == 2      \* opts.maxFrames ranges over 0..MaxFramesBound
ThrottleMs == 2          \* opts.throttleMs
PeriodicCaptureMs == 1   \* opts.periodicCaptureMs
IdleTimeoutMs == 2       \* opts.idleTimeoutMs
MaxEvents == 1           \* taps + scrolls + navigations registered in a run
Horizon == 2             \* the clock runs from StartTime to StartTime + Horizon
MaxCoord == 1            \* tap.x and tap.y range over 0..MaxCoord
MaxDim == 2              \* deviceWidth and deviceHeight range over 1..MaxDim
MaxIdLen == 3            \* userId has at most MaxIdLen characters
RateDen == 4             \* rate ranges over -1/RateDen .. (RateDen + 1)/RateDen
MaxCalls == 2            \* shouldSample is called at most MaxCalls times
MaxLen == 3              \* a session has at most MaxLen frames
MaxTs == 2               \* frame timestamps range over 0..MaxTs
TimelineWidth == 2       \* the timeline is TimelineWidth pixels wide
MaxBatches == 2          \* requests the collector accepts for the session
PerfHorizon == 2         \* performance.now() runs from 0 to PerfHorizon

\* Date.now() is epoch milliseconds: far larger than any throttle, so the
\* first capture() is never throttled against the initial lastCaptureTs = 0.
StartTime == ThrottleMs + 1
MaxTime == StartTime + Horizon

Null == 0
Undefined == "undefined"

\* The deviceInfo field before setDeviceInfo is called (null in the source),
\* written as a record so that it compares with a DeviceInfo.
NoDeviceInfo == [deviceWidth |-> Null, deviceHeight |-> Null]

\* The userId the provider constructs the manager with, and the userIds
\* identify() is called with.
AnonymousId == "anonymous"

KnownUserIds == {"user-42", "user-7"}

VARIABLES
  opts,                 \* CaptureManagerOptions (setUserId replaces userId)
  isActive, isIdle, isFlushing,
  frameCount, lastCaptureTs, lastInteractionTs,
  frames, taps, scrolls, navigations,
  deviceInfo,           \* DeviceInfo or NoDeviceInfo
  flushTimer, periodicCaptureTimer, idleTimer,   \* timer handles or Null
  periodicCaptureRef,   \* TRUE once a ref was given to startPeriodicCapture
  now,                  \* Date.now()
  timers,               \* timers armed in the host: [id, kind, due]
  shots,                \* captureRef calls in flight, in start order
  uploads,              \* every UploadPayload handed to fetch, with its status
  nextFrameId, nextEventId,   \* identities of the appended items
  userId, rate,         \* the arguments of shouldSample; rate is <<num, den>>
  sampled               \* what the calls of shouldSample returned, in order

samplerVars == <<userId, rate, sampled>>

\* The replay dashboard (App): its React state, its ref and the host.
VARIABLES
  current,              \* the loaded session; frames = <<>> when none is
  frameIdx,             \* index of the displayed frame, counted from 0
  playing, playbackRate, scrubbing,   \* playbackRate is <<num, den>>
  rafRef,               \* handle of the scheduled loop callback or Null
  raf,                  \* callbacks requestAnimationFrame holds, with closure
  perfNow,              \* performance.now()
  timestamp, found      \* argument <<num, den>> and result of a lookup

replayVars == <<current, frameIdx, playing, playbackRate, scrubbing, rafRef,
                raf, perfNow, timestamp, found>>

engineVars ==
  <<opts, isActive, isIdle, isFlushing, frameCount, lastCaptureTs,
    lastInteractionTs, frames, taps, scrolls, navigations, deviceInfo,
    flushTimer, periodicCaptureTimer, idleTimer, periodicCaptureRef, now,
    timers, shots, uploads, nextFrameId, nextEventId>>

\* The collector (replay-dashboard server): the files under SESSIONS_DIR,
\* the request bodies of /session-upload it has answered with ok, in the
\* order of arrival, and the status of its last response.
VARIABLES sessionFiles, arrived, status

collectorVars == <<sessionFiles, arrived, status>>

vars == <<engineVars, samplerVars, replayVars, collectorVars>>

\* ── The object and its environment as one record ──────────────────────
Cur ==
  [opts |-> opts, isActive |-> isActive, isIdle |-> isIdle,
   isFlushing |-> isFlushing, frameCount |-> frameCount,
   lastCaptureTs |-> lastCaptureTs, lastInteractionTs |-> lastInteractionTs,
   frames |-> frames, taps |-> taps, scrolls |-> scrolls,
   navigations |-> navigations, deviceInfo |-> deviceInfo,
   flushTimer |-> flushTimer,
   periodicCaptureTimer |-> periodicCaptureTimer, idleTimer |-> idleTimer,
   periodicCaptureRef |-> periodicCaptureRef, now |-> now, timers |-> timers,
   shots |-> shots, uploads |-> uploads, nextFrameId |-> nextFrameId,
   nextEventId |-> nextEventId,
   res |-> "none", fl |-> "none",   \* res, fl: outcome of the call being made
   promise |-> "none"]              \* the promise an async method returned

Becomes(s) ==
  /\ opts' = s.opts
  /\ isActive' = s.isActive
  /\ isIdle' = s.isIdle
  /\ isFlushing' = s.isFlushing
  /\ frameCount' = s.frameCount
  /\ lastCaptureTs' = s.lastCaptureTs
  /\ lastInteractionTs' = s.lastInteractionTs
  /\ frames' = s.frames
  /\ taps' = s.taps
  /\ scrolls' = s.scrolls
  /\ navigations' = s.navigations
  /\ deviceInfo' = s.deviceInfo
  /\ flushTimer' = s.flushTimer
  /\ periodicCaptureTimer' = s.periodicCaptureTimer
  /\ idleTimer' = s.idleTimer
  /\ periodicCaptureRef' = s.periodicCaptureRef
  /\ now' = s.now
  /\ timers' = s.timers
  /\ shots' = s.shots
  /\ uploads' = s.uploads
  /\ nextFrameId' = s.nextFrameId
  /\ nextEventId' = s.nextEventId
  /\ UNCHANGED <<samplerVars, replayVars, collectorVars>>

\* ── Host timers (setInterval / setTimeout / clearInterval / clearTimeout)
\* A handle is a number the host hands out; the model numbers the timers of
\* each kind separately.  A new handle differs from every armed timer of its
\* kind and from the handle the object still holds for that kind.
TimerIds == 1..3

Held(s, kind) ==
  CASE kind = "flush" -> s.flushTimer
    [] kind = "capture" -> s.periodicCaptureTimer
    [] kind = "idle" -> s.idleTimer

UsedTimerIds(s, kind) ==
  {t.id : t \in {u \in s.timers : u.kind = kind}} \cup {Held(s, kind)}

FreshTimerId(s, kind) ==
  CHOOSE i \in TimerIds :
    /\ i \notin UsedTimerIds(s, kind)
    /\ \A j \in 1..(i - 1) : j \in UsedTimerIds(s, kind)

ClearTimer(s, kind, id) ==
  [s EXCEPT !.timers = {t \in @ : ~(t.kind = kind /\ t.id = id)}]

\* setTimeout: the callback runs once, when the delay has elapsed.
SetTimeout(s, id, kind, delay) ==
  [s EXCEPT !.timers = @ \cup {[id |-> id, kind |-> kind, due |-> s.now + delay]}]

\* setInterval: the host runs the callback again and again until the timer
\* is cleared.  The instants are the host's: the model lets an armed interval
\* fire at any time, which covers every period and every delay of the host.
SetInterval(s, id, kind) ==
  [s EXCEPT !.timers = @ \cup {[id |-> id, kind |-> kind, due |-> Null]}]

\* ── Upload ─────────────────────────────────────────────────────────────
BuffersEmpty(s) ==
  /\ Len(s.frames) = 0
  /\ Len(s.taps) = 0
  /\ Len(s.scrolls) = 0
  /\ Len(s.navigations) = 0

\* Mutants of flush (plausible slips, used to test the flush properties).
flushNoGuard(s) ==
  IF BuffersEmpty(s) THEN [s EXCEPT !.fl = "empty"]
  ELSE [s EXCEPT
          !.isFlushing = TRUE,
          !.uploads = Append(@, [frames |-> s.frames, taps |-> s.taps,
                                 scrolls |-> s.scrolls,
                                 navigations |-> s.navigations,
                                 userId |-> s.opts.userId,
                                 status |-> "pending"]),
          !.frames = <<>>, !.taps = <<>>, !.scrolls = <<>>, !.navigations = <<>>,
          !.fl = "started"]

flushClearFirst(s) ==
  IF BuffersEmpty(s) THEN [s EXCEPT !.fl = "empty"]
  ELSE IF s.isFlushing
       THEN [s EXCEPT !.frames = <<>>, !.taps = <<>>, !.scrolls = <<>>,
                      !.navigations = <<>>, !.fl = "busy"]
  ELSE flushNoGuard(s)

flushKeepTaps(s) ==
  IF BuffersEmpty(s) THEN [s EXCEPT !.fl = "empty"]
  ELSE IF s.isFlushing THEN [s EXCEPT !.fl = "busy"]
  ELSE [flushNoGuard(s) EXCEPT !.taps = s.taps]

flushKeepFrames(s) ==
  IF BuffersEmpty(s) THEN [s EXCEPT !.fl = "empty"]
  ELSE IF s.isFlushing THEN [s EXCEPT !.fl = "busy"]
  ELSE [flushNoGuard(s) EXCEPT !.frames = s.frames]

flushConstructionUserId(s) ==
  IF BuffersEmpty(s) THEN [s EXCEPT !.fl = "empty"]
  ELSE IF s.isFlushing THEN [s EXCEPT !.fl = "busy"]
  ELSE [flushNoGuard(s) EXCEPT !.uploads[Len(s.uploads) + 1].userId = AnonymousId]

flush(s) ==
  IF BuffersEmpty(s) THEN [s EXCEPT !.fl = "empty"]
  ELSE IF s.isFlushing THEN [s EXCEPT !.fl = "busy"]
  ELSE [s EXCEPT
          !.isFlushing = TRUE,
          !.uploads = Append(@, [frames |-> s.frames, taps |-> s.taps,
                                 scrolls |-> s.scrolls,
                                 navigations |-> s.navigations,
                                 userId |-> s.opts.userId,
                                 status |-> "pending"]),
          !.frames = <<>>,
          !.taps = <<>>,
          !.scrolls = <<>>,
          !.navigations = <<>>,
          !.fl = "started"]

\* ── Periodic flush ─────────────────────────────────────────────────────
stopPeriodicFlush(s) ==
  IF s.flushTimer # Null
  THEN [ClearTimer(s, "flush", s.flushTimer) EXCEPT !.flushTimer = Null]
  ELSE s

\* Mutant of startPeriodicFlush: the interval armed before is not cleared.
startPeriodicFlushNoClear(s) ==
  [SetInterval(s, FreshTimerId(s, "flush"), "flush")
     EXCEPT !.flushTimer = FreshTimerId(s, "flush")]

startPeriodicFlush(s) ==
  LET s1 == stopPeriodicFlush(s)
      id == FreshTimerId(s1, "flush")
  IN  [SetInterval(s1, id, "flush") EXCEPT !.flushTimer = id]

\* ── Idle detection ─────────────────────────────────────────────────────
clearIdleTimer(s) ==
  IF s.idleTimer # Null
  THEN [ClearTimer(s, "idle", s.idleTimer) EXCEPT !.idleTimer = Null]
  ELSE s

resetIdleTimer(s) ==
  LET s1 == clearIdleTimer(s)
      id == FreshTimerId(s1, "idle")
  IN  IF s1.opts.idleTimeoutMs <= 0 THEN s1
      ELSE [SetTimeout(s1, id, "idle", s1.opts.idleTimeoutMs) EXCEPT !.idleTimer = id]

\* ── Periodic capture ───────────────────────────────────────────────────
stopPeriodicCapture(s) ==
  IF s.periodicCaptureTimer # Null
  THEN [ClearTimer(s, "capture", s.periodicCaptureTimer) EXCEPT !.periodicCaptureTimer = Null]
  ELSE s

startPeriodicCapture(s) ==
  LET s1 == stopPeriodicCapture([s EXCEPT !.periodicCaptureRef = TRUE])
      id == FreshTimerId(s1, "capture")
  IN  IF s1.opts.periodicCaptureMs <= 0 THEN s1
      ELSE resetIdleTimer(
             [SetInterval(s1, id, "capture") EXCEPT !.periodicCaptureTimer = id])

\* Mutant of notifyInteraction: periodic capture is not started again.
notifyInteractionNoResume(s) ==
  LET s1 == [s EXCEPT !.lastInteractionTs = s.now]
      s2 == IF s1.isIdle THEN [s1 EXCEPT !.isIdle = FALSE] ELSE s1
  IN  resetIdleTimer(s2)

notifyInteraction(s) ==
  LET s1 == [s EXCEPT !.lastInteractionTs = s.now]
      s2 == IF s1.isIdle
            THEN LET s3 == [s1 EXCEPT !.isIdle = FALSE]
                 IN  IF s3.periodicCaptureRef THEN startPeriodicCapture(s3) ELSE s3
            ELSE s1
  IN  resetIdleTimer(s2)

\* ── Lifecycle ──────────────────────────────────────────────────────────
start(s) ==
  startPeriodicFlush([s EXCEPT !.isActive = TRUE,
                               !.lastInteractionTs = s.now,
                               !.isIdle = FALSE])

\* Mutant of stop: the session's frame count starts again from zero.
stopResetsCount(s) ==
  flush(clearIdleTimer(stopPeriodicCapture(stopPeriodicFlush(
          [s EXCEPT !.isActive = FALSE, !.frameCount = 0]))))

\* Mutant of stop: the idle timeout is left armed.
stopKeepIdleTimer(s) ==
  flush(stopPeriodicCapture(stopPeriodicFlush([s EXCEPT !.isActive = FALSE])))

stop(s) ==
  flush(clearIdleTimer(stopPeriodicCapture(stopPeriodicFlush(
          [s EXCEPT !.isActive = FALSE]))))

\* ── Capture ────────────────────────────────────────────────────────────
\* Up to the await: the screenshot is now in flight.
doCapture(s, t) ==
  [s EXCEPT !.lastCaptureTs = t,
            !.frameCount = @ + 1,
            !.shots = Append(@, [timestamp |-> t]),
            !.res = "shot",
            !.promise = "pending"]

\* Mutants of capture / captureImmediate: a guard is missing.
captureNoThrottle(s) ==
  IF ~s.isActive THEN [s EXCEPT !.res = "inactive"]
  ELSE IF s.frameCount >= s.opts.maxFrames THEN [stop(s) EXCEPT !.res = "cap"]
  ELSE doCapture(s, s.now)

captureCapNoStop(s) ==
  IF ~s.isActive THEN [s EXCEPT !.res = "inactive"]
  ELSE IF s.frameCount >= s.opts.maxFrames THEN [s EXCEPT !.res = "cap"]
  ELSE IF s.now - s.lastCaptureTs < s.opts.throttleMs
       THEN [s EXCEPT !.res = "throttled"]
  ELSE doCapture(s, s.now)

captureImmediateThrottled(s) ==
  IF ~s.isActive THEN [s EXCEPT !.res = "inactive"]
  ELSE IF s.frameCount >= s.opts.maxFrames THEN [stop(s) EXCEPT !.res = "cap"]
  ELSE IF s.now - s.lastCaptureTs < s.opts.throttleMs
       THEN [s EXCEPT !.res = "throttled"]
  ELSE doCapture(s, s.now)

captureImmediateNoCap(s) ==
  IF ~s.isActive THEN [s EXCEPT !.res = "inactive"]
  ELSE doCapture(s, s.now)

capture(s) ==
  IF ~s.isActive THEN [s EXCEPT !.res = "inactive"]
  ELSE IF s.frameCount >= s.opts.maxFrames THEN [stop(s) EXCEPT !.res = "cap"]
  ELSE IF s.now - s.lastCaptureTs < s.opts.throttleMs
       THEN [s EXCEPT !.res = "throttled"]
  ELSE doCapture(s, s.now)

captureImmediate(s) ==
  IF ~s.isActive THEN [s EXCEPT !.res = "inactive"]
  ELSE IF s.frameCount >= s.opts.maxFrames THEN [stop(s) EXCEPT !.res = "cap"]
  ELSE doCapture(s, s.now)

RemoveAt(q, i) == SubSeq(q, 1, i - 1) \o SubSeq(q, i + 1, Len(q))

\* Mutant of the settlement of captureRef: a failure is not compensated.
doCaptureSettleNoDecrement(s, i, ok) ==
  IF ok
  THEN [s EXCEPT !.frames = Append(@, [id |-> s.nextFrameId,
                                       timestamp |-> s.shots[i].timestamp]),
                 !.nextFrameId = @ + 1,
                 !.shots = RemoveAt(@, i),
                 !.res = "ok",
                 !.promise = "fulfilled"]
  ELSE [s EXCEPT !.shots = RemoveAt(@, i),
                 !.res = "failed",
                 !.promise = "fulfilled"]

\* After the await: the screenshot i resolved (ok) or rejected.  The catch
\* block swallows the rejection, so the method's own promise is fulfilled.
doCaptureSettle(s, i, ok) ==
  IF ok
  THEN [s EXCEPT !.frames = Append(@, [id |-> s.nextFrameId,
                                       timestamp |-> s.shots[i].timestamp]),
                 !.nextFrameId = @ + 1,
                 !.shots = RemoveAt(@, i),
                 !.res = "ok",
                 !.promise = "fulfilled"]
  ELSE [s EXCEPT !.frameCount = @ - 1,
                 !.shots = RemoveAt(@, i),
                 !.res = "failed",
                 !.promise = "fulfilled"]

\* ── Structured events ──────────────────────────────────────────────────
setDeviceInfo(s, info) == [s EXCEPT !.deviceInfo = info]

setUserId(s, id) == [s EXCEPT !.opts.userId = id]

\* A JavaScript number that is a quotient of two integers, kept exact as
\* <<numerator, denominator>> in lowest terms.
RECURSIVE GCD(_, _)
GCD(a, b) == IF b = 0 THEN a ELSE GCD(b, a % b)

Quotient(a, b) == <<a \div GCD(a, b), b \div GCD(a, b)>>

\* typeof v === 'number'
IsNumber(v) == v # Undefined

\* Mutant of normalizeTap: the coordinates are derived whenever the device
\* dimensions are known, also over normalised coordinates the tap carries.
normalizeTapAlways(tap, info) ==
  IF info = NoDeviceInfo
  THEN tap
  ELSE [tap EXCEPT !.normalizedX = Quotient(tap.x, info.deviceWidth),
                   !.normalizedY = Quotient(tap.y, info.deviceHeight)]

\* The tap that registerTap pushes for the tap it is given.
normalizeTap(tap, info) ==
  LET hasNormalizedCoordinates ==
        IsNumber(tap.normalizedX) /\ IsNumber(tap.normalizedY)
  IN  IF hasNormalizedCoordinates \/ info = NoDeviceInfo
      THEN tap
      ELSE [tap EXCEPT !.normalizedX = Quotient(tap.x, info.deviceWidth),
                       !.normalizedY = Quotient(tap.y, info.deviceHeight)]

\* Mutant of registerTap: the active-state guard is missing.
registerTapNoGuard(s) ==
  LET s1 == notifyInteraction(s)
  IN  [s1 EXCEPT !.taps = Append(@, [id |-> s.nextEventId]),
                 !.nextEventId = @ + 1, !.res = "ok"]

registerTapEvent(s, tap) ==
  IF ~s.isActive THEN [s EXCEPT !.res = "inactive"]
  ELSE LET s1 == notifyInteraction(s)
       IN  [s1 EXCEPT
              !.taps = Append(@, normalizeTap([tap EXCEPT !.id = s.nextEventId],
                                              s.deviceInfo)),
              !.nextEventId = @ + 1, !.res = "ok"]

\* A tap of which only the identity matters.
PlainTap ==
  [id |-> 0, x |-> 0, y |-> 0, normalizedX |-> Undefined,
   normalizedY |-> Undefined, screen |-> "Home"]

registerTap(s) == registerTapEvent(s, PlainTap)

\* Mutant of registerScroll: the interaction is not signalled.
registerScrollNoNotify(s) ==
  IF ~s.isActive THEN [s EXCEPT !.res = "inactive"]
  ELSE [s EXCEPT !.scrolls = Append(@, [id |-> s.nextEventId]),
                 !.nextEventId = @ + 1, !.res = "ok"]

registerScroll(s) ==
  IF ~s.isActive THEN [s EXCEPT !.res = "inactive"]
  ELSE LET s1 == notifyInteraction(s)
       IN  [s1 EXCEPT !.scrolls = Append(@, [id |-> s.nextEventId]),
                      !.nextEventId = @ + 1, !.res = "ok"]

registerNavigation(s) ==
  IF ~s.isActive THEN [s EXCEPT !.res = "inactive"]
  ELSE LET s1 == notifyInteraction(s)
       IN  [s1 EXCEPT !.navigations = Append(@, [id |-> s.nextEventId]),
                      !.nextEventId = @ + 1, !.res = "ok"]

\* Mutants of the settlement of fetch.
flushSettleNoFinally(s, i, ok) ==
  [s EXCEPT !.uploads[i].status = IF ok THEN "ok" ELSE "failed",
            !.isFlushing = IF ok THEN FALSE ELSE @,
            !.res = IF ok THEN "ok" ELSE "failed"]

flushSettleRestore(s, i, ok) ==
  [s EXCEPT !.uploads[i].status = IF ok THEN "ok" ELSE "failed",
            !.isFlushing = FALSE,
            !.frames = IF ok THEN @ ELSE s.uploads[i].frames \o @,
            !.taps = IF ok THEN @ ELSE s.uploads[i].taps \o @,
            !.scrolls = IF ok THEN @ ELSE s.uploads[i].scrolls \o @,
            !.navigations = IF ok THEN @ ELSE s.uploads[i].navigations \o @,
            !.res = IF ok THEN "ok" ELSE "failed"]

\* After the await of fetch: upload i settled; the finally block runs.
flushSettle(s, i, ok) ==
  [s EXCEPT !.uploads[i].status = IF ok THEN "ok" ELSE "failed",
            !.isFlushing = FALSE,
            !.res = IF ok THEN "ok" ELSE "failed"]

\* ── Timer callbacks ────────────────────────────────────────────────────
flushTimerCallback(s) == flush(s)

\* Mutant of the periodic tick: the idle flag is not consulted.
periodicCaptureCallbackIgnoresIdle(s) ==
  IF s.isActive /\ s.periodicCaptureRef
  THEN capture(s)
  ELSE [s EXCEPT !.res = "skipped"]

periodicCaptureCallback(s) ==
  IF s.isActive /\ s.periodicCaptureRef /\ ~s.isIdle
  THEN capture(s)
  ELSE [s EXCEPT !.res = "skipped"]

idleTimerCallback(s) == [s EXCEPT !.isIdle = TRUE]

\* ── Sampler (shouldSample) ─────────────────────────────────────────────
\* Array.from(userId).reduce((acc, char) => acc + char.charCodeAt(0), acc0)
RECURSIVE reduce(_, _)
reduce(chars, acc) ==
  IF chars = <<>> THEN acc ELSE reduce(Tail(chars), acc + Head(chars))

\* Mutant of hash: a positional accumulation, acc * 31 + code.
RECURSIVE hashOrdered(_)
hashOrdered(id) ==
  IF id = <<>> THEN 0
  ELSE hashOrdered(SubSeq(id, 1, Len(id) - 1)) * 31 + id[Len(id)]

hash(id) == reduce(id, 0)

\* Mutant of shouldSample: the bucket is compared with <=, without the
\* two early returns.
shouldSampleInclusive(id, r) == (hash(id) % 100) * r[2] <= 100 * r[1]

\* rate is the fraction r[1] / r[2], r[2] > 0; (hash % 100) / 100 < rate is
\* decided on the cross-multiplied integers.
shouldSample(id, r) ==
  IF r[1] <= 0 THEN FALSE
  ELSE IF r[1] >= r[2] THEN TRUE
  ELSE (hash(id) % 100) * r[2] < 100 * r[1]

\* ── Replay timeline (App) ──────────────────────────────────────────────
\* frames[i] with the source's indices, which count from 0.
At(frames_, i) == frames_[i + 1]

Abs(n) == IF n < 0 THEN -n ELSE n
Max(a, b) == IF a >= b THEN a ELSE b
Min(a, b) == IF a <= b THEN a ELSE b

\* The while loop of findFrameIndexForTimestamp; t is the timestamp asked
\* for, the fraction t[1] / t[2] with t[2] > 0.
RECURSIVE search(_, _, _, _)
search(frames_, t, low, high) ==
  IF low < high
  THEN LET mid == (low + high) \div 2
       IN  IF At(frames_, mid).timestamp * t[2] < t[1]
           THEN search(frames_, t, mid + 1, high)
           ELSE search(frames_, t, low, mid)
  ELSE low

\* Mutant of findFrameIndexForTimestamp: a tie goes to the candidate.
findFrameIndexTieToCandidate(frames_, t) ==
  LET currentIdx == search(frames_, t, 0, Len(frames_) - 1)
      prevIdx == Max(0, currentIdx - 1)
      currentDelta == Abs(At(frames_, currentIdx).timestamp * t[2] - t[1])
      prevDelta == Abs(At(frames_, prevIdx).timestamp * t[2] - t[1])
  IN  IF prevDelta < currentDelta THEN prevIdx ELSE currentIdx

\* frames[currentIdx] is undefined when currentIdx is not an index of
\* frames, and reading its timestamp throws a TypeError.
findFrameIndexThrows(frames_, t) ==
  LET currentIdx == search(frames_, t, 0, Len(frames_) - 1)
  IN  ~(currentIdx \in 0..(Len(frames_) - 1))

\* The deltas are compared scaled by t[2].
findFrameIndexForTimestamp(frames_, t) ==
  LET currentIdx == search(frames_, t, 0, Len(frames_) - 1)
      prevIdx == Max(0, currentIdx - 1)
      currentDelta == Abs(At(frames_, currentIdx).timestamp * t[2] - t[1])
      prevDelta == Abs(At(frames_, prevIdx).timestamp * t[2] - t[1])
  IN  IF prevDelta <= currentDelta THEN prevIdx ELSE currentIdx

\* The dashboard and its host as one record.
App ==
  [current |-> current, frameIdx |-> frameIdx, playing |-> playing,
   playbackRate |-> playbackRate, scrubbing |-> scrubbing, rafRef |-> rafRef,
   raf |-> raf, perfNow |-> perfNow,
   thrown |-> "none"]    \* thrown: the error the call being made threw

Shows(v) ==
  /\ current' = v.current
  /\ frameIdx' = v.frameIdx
  /\ playing' = v.playing
  /\ playbackRate' = v.playbackRate
  /\ scrubbing' = v.scrubbing
  /\ rafRef' = v.rafRef
  /\ raf' = v.raf
  /\ perfNow' = v.perfNow
  /\ UNCHANGED <<engineVars, samplerVars, collectorVars, timestamp, found>>

\* requestAnimationFrame hands out a handle that no scheduled callback has.
FreshHandle(v) ==
  CHOOSE id \in 1..(Cardinality(v.raf) + 1) : \A cb \in v.raf : cb.id # id

\* if (rafRef.current) { cancelAnimationFrame(rafRef.current); rafRef.current = null }
cancelAnimationFrame(v) ==
  IF v.rafRef # Null
  THEN [v EXCEPT !.raf = {cb \in @ : cb.id # v.rafRef}, !.rafRef = Null]
  ELSE v

loadSession(v, data) ==
  [cancelAnimationFrame(v) EXCEPT !.current = data, !.frameIdx = 0,
                                  !.playing = FALSE]

stopPlayback(v) == [cancelAnimationFrame(v) EXCEPT !.playing = FALSE]

\* The while loop of loop(): i moves on while the next frame is due;
\* elapsed is the fraction elapsed[1] / elapsed[2].
RECURSIVE advance(_, _, _, _)
advance(frames_, i, baseTs, elapsed) ==
  IF /\ i + 1 < Len(frames_)
     /\ (At(frames_, i + 1).timestamp - baseTs) * elapsed[2] <= elapsed[1]
  THEN advance(frames_, i + 1, baseTs, elapsed)
  ELSE i

\* Mutant of loop: at the last frame the index is set and the loop goes on.
loopNeverStops(v, cb) ==
  LET elapsed == <<(v.perfNow - cb.startTime) * cb.playbackRate[1],
                   cb.playbackRate[2]>>
      i == advance(cb.frames, cb.i, cb.baseTs, elapsed)
      id == FreshHandle(v)
  IN  [v EXCEPT !.frameIdx = i,
                !.raf = @ \cup {[cb EXCEPT !.id = id, !.i = i,
                                           !.lastRendered = i]},
                !.rafRef = id]

\* loop(), called by play() and by requestAnimationFrame; cb is its
\* closure: the constants of play() and the variables i and lastRendered.
loop(v, cb) ==
  LET elapsed == <<(v.perfNow - cb.startTime) * cb.playbackRate[1],
                   cb.playbackRate[2]>>
      i == advance(cb.frames, cb.i, cb.baseTs, elapsed)
      v1 == IF i # cb.lastRendered THEN [v EXCEPT !.frameIdx = i] ELSE v
      id == FreshHandle(v1)
  IN  IF i < Len(cb.frames) - 1
      THEN [v1 EXCEPT !.raf = @ \cup {[cb EXCEPT !.id = id, !.i = i,
                                                 !.lastRendered = i]},
                      !.rafRef = id]
      ELSE [v1 EXCEPT !.frameIdx = Len(cb.frames) - 1, !.playing = FALSE,
                      !.rafRef = Null]

\* Mutant of play: an empty session is reported as an error.
playFailsFast(v) ==
  IF v.current.frames = <<>> THEN [v EXCEPT !.thrown = "Error"]
  ELSE LET v1 == [cancelAnimationFrame(v) EXCEPT !.playing = TRUE]
           cb == [id |-> Null,
                  frames |-> v.current.frames,
                  startIndex |-> v.frameIdx,
                  baseTs |-> At(v.current.frames, v.frameIdx).timestamp,
                  startTime |-> v.perfNow,
                  i |-> v.frameIdx,
                  lastRendered |-> v.frameIdx - 1,
                  playbackRate |-> v.playbackRate]
       IN  loop(v1, cb)

play(v) ==
  IF v.current.frames = <<>> THEN v
  ELSE LET v1 == [cancelAnimationFrame(v) EXCEPT !.playing = TRUE]
           cb == [id |-> Null,
                  frames |-> v.current.frames,
                  startIndex |-> v.frameIdx,
                  baseTs |-> At(v.current.frames, v.frameIdx).timestamp,
                  startTime |-> v.perfNow,
                  i |-> v.frameIdx,
                  lastRendered |-> v.frameIdx - 1,
                  playbackRate |-> v.playbackRate]
       IN  loop(v1, cb)

sessionDurationMs(v) ==
  IF v.current.frames # <<>>
  THEN At(v.current.frames, Len(v.current.frames) - 1).timestamp
         - At(v.current.frames, 0).timestamp
  ELSE 0

\* timelineElement.getBoundingClientRect()
TimelineRect == [left |-> 0, right |-> TimelineWidth, width |-> TimelineWidth]

\* x clamped to the rect, as a fraction of its width.
Ratio(clientX, rect) ==
  LET x == Min(rect.right, Max(rect.left, clientX))
  IN  IF rect.width > 0 THEN <<x - rect.left, rect.width>> ELSE <<0, 1>>

\* Mutant of targetTimestamp: the duration is used as it is, also when 0.
targetTimestampPlainDuration(v, clientX, rect) ==
  LET ratio == Ratio(clientX, rect)
      duration == sessionDurationMs(v)
  IN  <<At(v.current.frames, 0).timestamp * ratio[2] + ratio[1] * duration,
        ratio[2]>>

\* const targetTimestamp of seekFromClientX, an exact fraction <<num, den>>.
targetTimestamp(v, clientX, rect) ==
  LET ratio == Ratio(clientX, rect)
      duration == IF sessionDurationMs(v) # 0 THEN sessionDurationMs(v) ELSE 1
  IN  <<At(v.current.frames, 0).timestamp * ratio[2] + ratio[1] * duration,
        ratio[2]>>

seekFromClientX(v, clientX, rect) ==
  IF v.current.frames = <<>> THEN v
  ELSE [v EXCEPT !.frameIdx =
          findFrameIndexForTimestamp(v.current.frames,
                                     targetTimestamp(v, clientX, rect))]

handleTimelinePointerDown(v, clientX) ==
  seekFromClientX([stopPlayback(v) EXCEPT !.scrubbing = TRUE], clientX,
                  TimelineRect)

handleTimelinePointerMove(v, clientX) ==
  IF ~v.scrubbing THEN v ELSE seekFromClientX(v, clientX, TimelineRect)

handleTimelinePointerUp(v, clientX) ==
  IF ~v.scrubbing THEN v
  ELSE [seekFromClientX(v, clientX, TimelineRect) EXCEPT !.scrubbing = FALSE]

handleTogglePlay(v) == IF v.playing THEN stopPlayback(v) ELSE play(v)

\* onChange of the speed select: setPlaybackRate(Number(e.target.value))
setPlaybackRate(v, r) == [v EXCEPT !.playbackRate = r]

\* ── Collector ──────────────────────────────────────────────────────────
\* a || b of JavaScript on numbers: 0 (like undefined and null) is falsy.
Or(a, b) == IF a # Null THEN a ELSE b

\* The handler of POST /session-upload: the files and the response status
\* after the request with body session was handled.
sessionUpload(files, session) ==
  IF session.sessionId = ""
  THEN [files |-> files, status |-> 400]
  ELSE IF session.sessionId \in DOMAIN files
  THEN LET existing == files[session.sessionId]
       IN  [files |-> [files EXCEPT ![session.sessionId] =
                         [existing EXCEPT
                            !.frames = @ \o session.frames,
                            !.taps = @ \o session.taps,
                            !.scrolls = @ \o session.scrolls,
                            !.deviceWidth = Or(session.deviceWidth, @),
                            !.deviceHeight = Or(session.deviceHeight, @)]],
            status |-> 200]
  ELSE [files |-> [id \in DOMAIN files \cup {session.sessionId} |->
                     IF id = session.sessionId THEN session ELSE files[id]],
        status |-> 200]

\* ── Inputs ─────────────────────────────────────────────────────────────
\* The frames of a session with the timestamps ts.
FramesAt(ts) == [k \in 1..Len(ts) |-> [timestamp |-> ts[k]]]

\* Sessions as the server returns them: the frames in recording order, the
\* timestamps non-decreasing.
SortedTimestamps ==
  {ts \in UNION {[1..n -> 0..MaxTs] : n \in 0..MaxLen} :
     \A k \in 1..(Len(ts) - 1) : ts[k] <= ts[k + 1]}

Sessions == {[frames |-> FramesAt(ts)] : ts \in SortedTimestamps}

\* Timestamps asked for: every half millisecond from before the first
\* possible timestamp to after the last.
TimestampsAsked == {<<n, 2>> : n \in -2..(2 * MaxTs + 2)}

\* The options of the speed select.
PlaybackRates == {<<1, 2>>, <<1, 1>>, <<3, 2>>, <<2, 1>>}

\* e.clientX: on the timeline, and one pixel to the left and right of it.
ClientXs == -1..(TimelineWidth + 1)

\* Character codes of '0', 'a' and 'u'.
CharCodes == {48, 97, 117}

UserIds == UNION {[1..n -> CharCodes] : n \in 0..MaxIdLen}

Rates == {<<n, RateDen>> : n \in -1..(RateDen + 1)}

\* The request bodies the collector is sent as its n-th request: each array
\* is empty or holds the one item of that batch, the device dimensions are
\* given or not, and the sessionId is that of the session or is missing.
ItemsOf(present, n) == IF present THEN <<[id |-> n]>> ELSE <<>>

SessionIds == {"", "session-1"}

Bodies(n) ==
  {[sessionId |-> id,
    frames |-> ItemsOf(f, n), taps |-> ItemsOf(t, n),
    scrolls |-> ItemsOf(sc, n), navigations |-> ItemsOf(nav, n),
    deviceWidth |-> info.deviceWidth, deviceHeight |-> info.deviceHeight] :
     id \in SessionIds, f \in BOOLEAN, t \in BOOLEAN, sc \in BOOLEAN,
     nav \in BOOLEAN,
     info \in {NoDeviceInfo} \cup [deviceWidth : 1..MaxDim, deviceHeight : {MaxDim}]}

DeviceInfos == [deviceWidth : 1..MaxDim, deviceHeight : 1..MaxDim]

\* Taps as the trackers hand them over: with or without normalised
\* coordinates, or with one of the two only.
TapEvents ==
  [id : {0}, x : 0..MaxCoord, y : 0..MaxCoord,
   normalizedX : {Undefined, <<1, 3>>}, normalizedY : {Undefined, <<1, 3>>},
   screen : {"Home"}]

\* ── Initial state: a freshly constructed CaptureManager ────────────────
Options ==
  [maxFrames : 0..MaxFramesBound,
   throttleMs : {ThrottleMs},
   periodicCaptureMs : {PeriodicCaptureMs},
   idleTimeoutMs : {IdleTimeoutMs},
   userId : {AnonymousId}]

Constructed ==
  /\ opts \in Options
  /\ isActive = FALSE
  /\ isIdle = FALSE
  /\ isFlushing = FALSE
  /\ frameCount = 0
  /\ lastCaptureTs = 0
  /\ lastInteractionTs = 0
  /\ frames = <<>>
  /\ taps = <<>>
  /\ scrolls = <<>>
  /\ navigations = <<>>
  /\ deviceInfo = NoDeviceInfo
  /\ flushTimer = Null
  /\ periodicCaptureTimer = Null
  /\ idleTimer = Null
  /\ periodicCaptureRef = FALSE
  /\ now = StartTime
  /\ timers = {}
  /\ shots = <<>>
  /\ uploads = <<>>
  /\ nextFrameId = 1
  /\ nextEventId = 1

\* shouldSample has not been called.
NotSampled ==
  /\ userId = <<>>
  /\ rate = <<0, 1>>
  /\ sampled = <<>>

\* The dashboard as mounted: no session loaded, nothing looked up.
Mounted ==
  /\ current = [frames |-> <<>>]
  /\ frameIdx = 0
  /\ playing = FALSE
  /\ playbackRate = <<1, 1>>
  /\ scrubbing = FALSE
  /\ rafRef = Null
  /\ raf = {}
  /\ perfNow = 0
  /\ timestamp = <<0, 1>>
  /\ found = -1

\* The collector has just started: SESSIONS_DIR holds no file.
Listening ==
  /\ sessionFiles = [id \in {} |-> NoDeviceInfo]
  /\ arrived = <<>>
  /\ status = Null

Init == Constructed /\ NotSampled /\ Mounted /\ Listening

\* ── Actions ────────────────────────────────────────────────────────────
Start == \E s \in {start(Cur)} : Becomes(s)

StartPeriodicCapture == \E s \in {startPeriodicCapture(Cur)} : Becomes(s)

Stop == \E s \in {stop(Cur)} : Becomes(s)

Capture == \E s \in {capture(Cur)} : Becomes(s)

CaptureImmediate == \E s \in {captureImmediate(Cur)} : Becomes(s)

ScreenshotSettle ==
  \E i \in 1..Len(shots) : \E ok \in BOOLEAN :
    Becomes(doCaptureSettle(Cur, i, ok))

RegisterTap ==
  /\ nextEventId <= MaxEvents
  /\ Becomes(registerTap(Cur))

RegisterScroll ==
  /\ nextEventId <= MaxEvents
  /\ Becomes(registerScroll(Cur))

RegisterNavigation ==
  /\ nextEventId <= MaxEvents
  /\ Becomes(registerNavigation(Cur))

SetDeviceInfo ==
  \E info \in DeviceInfos : \E s \in {setDeviceInfo(Cur, info)} : Becomes(s)

RegisterTapEvent ==
  /\ nextEventId <= MaxEvents
  /\ \E tap \in TapEvents : Becomes(registerTapEvent(Cur, tap))

SetUserId == \E id \in KnownUserIds : \E s \in {setUserId(Cur, id)} : Becomes(s)

SessionUpload ==
  \E session \in Bodies(Len(arrived) + 1) :
    \E r \in {sessionUpload(sessionFiles, session)} :
      /\ Len(arrived) < MaxBatches
      /\ sessionFiles' = r.files
      /\ status' = r.status
      /\ arrived' = IF r.status = 200 THEN Append(arrived, session) ELSE arrived
      /\ UNCHANGED <<engineVars, samplerVars, replayVars>>

NotifyInteraction == \E s \in {notifyInteraction(Cur)} : Becomes(s)

Flush == \E s \in {flush(Cur)} : Becomes(s)

UploadSettle ==
  \E i \in 1..Len(uploads) : \E ok \in BOOLEAN :
    /\ uploads[i].status = "pending"
    /\ Becomes(flushSettle(Cur, i, ok))

FlushTimerFire ==
  \E t \in timers :
    /\ t.kind = "flush"
    /\ Becomes(flushTimerCallback(Cur))

PeriodicCaptureTimerFire ==
  \E t \in timers :
    /\ t.kind = "capture"
    /\ Becomes(periodicCaptureCallback(Cur))

IdleTimerFire ==
  \E t \in timers :
    /\ t.kind = "idle"
    /\ t.due <= now
    /\ Becomes(idleTimerCallback([Cur EXCEPT !.timers = @ \ {t}]))

\* Time passes; a timeout that is due runs before the clock moves on.
Tick ==
  /\ now < MaxTime
  /\ \A t \in timers : t.kind = "idle" => t.due > now
  /\ Becomes([Cur EXCEPT !.now = @ + 1])

Next ==
  \/ Start
  \/ StartPeriodicCapture
  \/ Stop
  \/ Capture
  \/ CaptureImmediate
  \/ ScreenshotSettle
  \/ RegisterTap
  \/ RegisterScroll
  \/ RegisterNavigation
  \/ NotifyInteraction
  \/ Flush
  \/ UploadSettle
  \/ FlushTimerFire
  \/ PeriodicCaptureTimerFire
  \/ IdleTimerFire
  \/ Tick

Spec == Init /\ [][Next]_vars

\* The engine without structured events: lifecycle, capture, timers, clock
\* and upload.  frameCount, lastCaptureTs and the timers are written by these
\* operations only (register* reach them through notifyInteraction alone).
NextFrames ==
  \/ Start
  \/ StartPeriodicCapture
  \/ Stop
  \/ Capture
  \/ CaptureImmediate
  \/ ScreenshotSettle
  \/ NotifyInteraction
  \/ Flush
  \/ UploadSettle
  \/ FlushTimerFire
  \/ PeriodicCaptureTimerFire
  \/ IdleTimerFire
  \/ Tick

SpecFrames == Init /\ [][NextFrames]_vars

\* Buffering and upload at one instant of the clock: flush() and the four
\* buffers never read the clock, and the periodic-capture and idle timers
\* reach them only through capture(), which is called freely here.
NextFlush ==
  \/ Start
  \/ Stop
  \/ Capture
  \/ CaptureImmediate
  \/ ScreenshotSettle
  \/ RegisterTap
  \/ RegisterScroll
  \/ RegisterNavigation
  \/ Flush
  \/ UploadSettle
  \/ FlushTimerFire

SpecFlush == Init /\ [][NextFlush]_vars

\* Idle detection: lifecycle, throttled capture, structured events, the
\* periodic-capture and idle timers and the clock.  The idle flag and these
\* timers are never read or written by flush() or by the settlement of an
\* upload, and captureImmediate() reaches them only as capture() does.
NextIdle ==
  \/ Start
  \/ StartPeriodicCapture
  \/ Stop
  \/ Capture
  \/ ScreenshotSettle
  \/ RegisterTap
  \/ RegisterScroll
  \/ RegisterNavigation
  \/ PeriodicCaptureTimerFire
  \/ IdleTimerFire
  \/ Tick

SpecIdle == Init /\ [][NextIdle]_vars

\* Taps and device dimensions: the engine is started, told the device
\* dimensions at any time, before or after, and handed taps of every shape.
NextTap ==
  \/ Start
  \/ SetDeviceInfo
  \/ RegisterTapEvent

\* The frame budget plays no part in registerTap: one budget is enough.
InitTap == Init /\ opts.maxFrames = MaxFramesBound

SpecTap == InitTap /\ [][NextTap]_vars

\* Buffering with the periodic flush alone: nothing but the flush timer
\* calls flush() while the engine is active.
NextPeriodicFlush ==
  \/ Start
  \/ Stop
  \/ Capture
  \/ ScreenshotSettle
  \/ RegisterTap
  \/ RegisterScroll
  \/ RegisterNavigation
  \/ UploadSettle
  \/ FlushTimerFire

\* The scheduling the host provides: an armed interval keeps firing
\* (setInterval), and a fetch that was started settles.
FairFlush == WF_vars(FlushTimerFire) /\ WF_vars(UploadSettle)

SpecFlushFair == InitTap /\ [][NextPeriodicFlush]_vars /\ FairFlush

\* The sampler: shouldSample is called, again and again, on one userId and
\* one rate; nothing else changes.
ShouldSample ==
  /\ Len(sampled) < MaxCalls
  /\ sampled' = Append(sampled, shouldSample(userId, rate))
  /\ UNCHANGED <<engineVars, userId, rate, replayVars, collectorVars>>

InitSampling ==
  /\ Constructed
  /\ Listening
  /\ opts.maxFrames = MaxFramesBound
  /\ Mounted
  /\ userId \in UserIds
  /\ rate \in Rates
  /\ sampled = <<>>

SpecSampling == InitSampling /\ [][ShouldSample]_vars

\* The lookup: findFrameIndexForTimestamp is called on the frames of the
\* loaded session with any timestamp.
FindFrameIndexForTimestamp ==
  /\ current.frames # <<>>
  /\ \E t \in TimestampsAsked :
       /\ timestamp' = t
       /\ found' = findFrameIndexForTimestamp(current.frames, t)
  /\ UNCHANGED <<engineVars, samplerVars, collectorVars, current, frameIdx, playing,
                 playbackRate, scrubbing, rafRef, raf, perfNow>>

InitLookup ==
  /\ Constructed
  /\ Listening
  /\ opts.maxFrames = MaxFramesBound
  /\ NotSampled
  /\ current \in Sessions \ {[frames |-> <<>>]}
  /\ frameIdx = 0
  /\ playing = FALSE
  /\ playbackRate = <<1, 1>>
  /\ scrubbing = FALSE
  /\ rafRef = Null
  /\ raf = {}
  /\ perfNow = 0
  /\ timestamp = <<0, 1>>
  /\ found = -1

SpecLookup == InitLookup /\ [][FindFrameIndexForTimestamp]_vars

\* ── The replay timeline ────────────────────────────────────────────────
\* The response of the session fetch arrives.
LoadSession == \E data \in Sessions : \E v \in {loadSession(App, data)} : Shows(v)

TogglePlay == \E v \in {handleTogglePlay(App)} : Shows(v)

\* The browser runs a scheduled loop callback.
AnimationFrame ==
  \E cb \in raf : \E v \in {loop([App EXCEPT !.raf = @ \ {cb}], cb)} : Shows(v)

TimelinePointerDown ==
  \E x \in ClientXs : \E v \in {handleTimelinePointerDown(App, x)} : Shows(v)

TimelinePointerMove ==
  \E x \in ClientXs : \E v \in {handleTimelinePointerMove(App, x)} : Shows(v)

TimelinePointerUp ==
  \E x \in ClientXs : \E v \in {handleTimelinePointerUp(App, x)} : Shows(v)

PerformanceTick ==
  /\ perfNow < PerfHorizon
  /\ \E v \in {[App EXCEPT !.perfNow = @ + 1]} : Shows(v)

NextTimeline ==
  \/ LoadSession
  \/ TogglePlay
  \/ AnimationFrame
  \/ TimelinePointerDown
  \/ TimelinePointerMove
  \/ TimelinePointerUp
  \/ PerformanceTick

InitTimeline ==
  /\ Constructed
  /\ Listening
  /\ opts.maxFrames = MaxFramesBound
  /\ NotSampled
  /\ current = [frames |-> <<>>]
  /\ frameIdx = 0
  /\ playing = FALSE
  /\ playbackRate \in PlaybackRates
  /\ scrubbing = FALSE
  /\ rafRef = Null
  /\ raf = {}
  /\ perfNow = 0
  /\ timestamp = <<0, 1>>
  /\ found = -1

SpecTimeline == InitTimeline /\ [][NextTimeline]_vars

SetPlaybackRate ==
  \E r \in PlaybackRates : \E v \in {setPlaybackRate(App, r)} : Shows(v)

\* Playback with the speed select: sessions are loaded, played and paused,
\* and the speed is changed at any time, also while playing.
NextRate ==
  \/ LoadSession
  \/ TogglePlay
  \/ AnimationFrame
  \/ SetPlaybackRate
  \/ PerformanceTick

SpecRate == InitTimeline /\ [][NextRate]_vars

\* Identity: events are buffered, flushed and the uploads settle, while
\* identify() replaces the userId at any time.
NextIdentify ==
  \/ Start
  \/ Stop
  \/ RegisterTap
  \/ RegisterScroll
  \/ RegisterNavigation
  \/ SetUserId
  \/ Flush
  \/ UploadSettle

SpecIdentify == InitTap /\ [][NextIdentify]_vars

\* The timers: everything that arms, re-arms, fires or disarms a timer.
NextTimers ==
  \/ Start
  \/ StartPeriodicCapture
  \/ Stop
  \/ NotifyInteraction
  \/ RegisterTap
  \/ RegisterScroll
  \/ RegisterNavigation
  \/ FlushTimerFire
  \/ PeriodicCaptureTimerFire
  \/ IdleTimerFire
  \/ Tick

SpecTimers == Init /\ [][NextTimers]_vars

\* The collector: batches of one session arrive one after the other.
NextCollector == SessionUpload

SpecCollector == InitTap /\ [][NextCollector]_vars

\* The step of ScreenshotSettle in which captureRef rejects.
ScreenshotFails == \E i \in 1..Len(shots) : Becomes(doCaptureSettle(Cur, i, FALSE))

\* ── Properties ─────────────────────────────────────────────────────────
Pending(u) == {i \in DOMAIN u : u[i].status = "pending"}

IsPrefix(a, b) == Len(a) <= Len(b) /\ SubSeq(b, 1, Len(a)) = a

Buffered == Len(frames) + Len(taps) + Len(scrolls) + Len(navigations)

\* C1: in every reachable state frameCount (capturedFrames) is at most
\* maxFrames, whatever the interleaving of start, stop, capture,
\* captureImmediate and screenshot completions or failures.
FrameCountWithinCap == frameCount <= opts.maxFrames

\* Two attempts in flight together have used up the whole budget.
CapReachedByConcurrentShots ==
  /\ Len(shots) >= 2
  /\ frameCount = opts.maxFrames

\* C2: capture() (called directly or by the periodic timer) starts a
\* screenshot only when at least throttleMs has passed since lastCaptureTs;
\* the attempt is stamped with the current time, which becomes lastCaptureTs.
\* An attempt started inside the throttle window is a captureImmediate().
ThrottleRespected ==
  [][/\ ((Capture \/ PeriodicCaptureTimerFire) /\ Len(shots') = Len(shots) + 1)
        => /\ now - lastCaptureTs >= opts.throttleMs
           /\ shots'[Len(shots')].timestamp = now
           /\ shots'[Len(shots')].timestamp - lastCaptureTs >= opts.throttleMs
           /\ lastCaptureTs' = now
     /\ (Len(shots') = Len(shots) + 1 /\ now - lastCaptureTs < opts.throttleMs)
        => CaptureImmediate]_vars

\* A frame is buffered and a later attempt, a full throttle window after it,
\* has just been started.
SecondAttemptAfterWindow ==
  \E i \in DOMAIN frames : \E j \in DOMAIN shots :
    /\ shots[j].timestamp - frames[i].timestamp >= opts.throttleMs
    /\ lastCaptureTs = now
    /\ opts.throttleMs > 0

\* C3: at most one upload (network call) is in flight at any time, whichever
\* of the flush timer, stop(), the cap-reached path or an external caller
\* asks for the flush.
AtMostOneUploadInFlight == Cardinality(Pending(uploads)) <= 1

\* The cap was reached and the engine stopped while an upload is in flight
\* and data is still buffered.
StoppedAtCapWhileUploading ==
  /\ Pending(uploads) # {}
  /\ ~isActive
  /\ frameCount = opts.maxFrames
  /\ Buffered > 0

\* C4: while an upload is pending, no step (a second flush() in particular)
\* makes another network call, and nothing buffered is removed: what is
\* appended meanwhile stays in the buffers for a later flush.
SecondFlushIsNoOp ==
  [][Pending(uploads) # {}
       => /\ Len(uploads') = Len(uploads)
          /\ IsPrefix(frames, frames')
          /\ IsPrefix(taps, taps')
          /\ IsPrefix(scrolls, scrolls')
          /\ IsPrefix(navigations, navigations')]_vars

\* Several items were appended since the pending upload began.
ItemsWaitBehindUpload ==
  /\ Pending(uploads) # {}
  /\ Buffered >= 2

\* C5: a flush that starts an upload hands over exactly the four buffers as
\* they were when it began, in append order, and leaves all four empty with
\* the in-flight flag set, in one step.
FlushSnapshotsAndClears ==
  [][Len(uploads') = Len(uploads) + 1
       => /\ uploads'[Len(uploads')] =
               [frames |-> frames, taps |-> taps, scrolls |-> scrolls,
                navigations |-> navigations, userId |-> opts.userId,
                status |-> "pending"]
          /\ SubSeq(uploads', 1, Len(uploads)) = uploads
          /\ frames' = <<>>
          /\ taps' = <<>>
          /\ scrolls' = <<>>
          /\ navigations' = <<>>
          /\ isFlushing']_vars

\* A pending batch holds two frames in capture order and an event, and the
\* buffers are empty.
BatchOfSeveralItems ==
  \E i \in Pending(uploads) :
    /\ Len(uploads[i].frames) >= 2
    /\ uploads[i].frames[1].id < uploads[i].frames[2].id
    /\ Len(uploads[i].taps) + Len(uploads[i].scrolls)
          + Len(uploads[i].navigations) >= 1
    /\ Buffered = 0

\* Where an item is: <<0, "frames", k>> is position k of the frames buffer,
\* <<i, "frames", k>> position k of the frames of upload i.
PlacesIn(i, kind, q, id) == {<<i, kind, k>> : k \in {k \in DOMAIN q : q[k].id = id}}

FramePlaces(id) ==
  PlacesIn(0, "frames", frames, id)
    \cup UNION {PlacesIn(i, "frames", uploads[i].frames, id) : i \in DOMAIN uploads}

EventPlaces(id) ==
  PlacesIn(0, "taps", taps, id)
    \cup PlacesIn(0, "scrolls", scrolls, id)
    \cup PlacesIn(0, "navigations", navigations, id)
    \cup UNION {PlacesIn(i, "taps", uploads[i].taps, id)
                  \cup PlacesIn(i, "scrolls", uploads[i].scrolls, id)
                  \cup PlacesIn(i, "navigations", uploads[i].navigations, id)
                : i \in DOMAIN uploads}

\* C6: every frame and every event ever appended is in exactly one place:
\* still in its buffer, or in exactly one upload batch.
EveryItemInOnePlace ==
  /\ \A id \in 1..(nextFrameId - 1) : Cardinality(FramePlaces(id)) = 1
  /\ \A id \in 1..(nextEventId - 1) : Cardinality(EventPlaces(id)) = 1

\* A frame appended during an upload waits in the buffer, after an earlier
\* batch has settled.
FrameAppendedDuringUpload ==
  /\ Pending(uploads) # {}
  /\ Len(uploads) >= 2
  /\ Len(frames) >= 1

\* C7: isFlushing is set exactly while an upload is pending, so it is
\* cleared when the upload settles, failed or not; and once an upload has
\* failed, a flush() with something buffered starts a new upload.
FlushFlagClearedOnSettle ==
  /\ isFlushing <=> Pending(uploads) # {}
  /\ (/\ \E i \in DOMAIN uploads : uploads[i].status = "failed"
      /\ Pending(uploads) = {}
      /\ Buffered > 0)
       => /\ flush(Cur).fl = "started"
          /\ Len(flush(Cur).uploads) = Len(uploads) + 1

\* An upload was started after an earlier one failed.
UploadAfterFailure ==
  \E i, j \in DOMAIN uploads :
    /\ i < j
    /\ uploads[i].status = "failed"
    /\ uploads[j].status = "pending"

\* C8: the items of a failed batch are nowhere else: not back in a buffer,
\* not in any other batch (no restore, no retry).
FailedBatchIsDropped ==
  \A i \in DOMAIN uploads :
    uploads[i].status = "failed"
      => /\ \A k \in DOMAIN uploads[i].frames :
              FramePlaces(uploads[i].frames[k].id) = {<<i, "frames", k>>}
         /\ \A k \in DOMAIN uploads[i].taps :
              EventPlaces(uploads[i].taps[k].id) = {<<i, "taps", k>>}
         /\ \A k \in DOMAIN uploads[i].scrolls :
              EventPlaces(uploads[i].scrolls[k].id) = {<<i, "scrolls", k>>}
         /\ \A k \in DOMAIN uploads[i].navigations :
              EventPlaces(uploads[i].navigations[k].id) = {<<i, "navigations", k>>}

\* A batch failed, a later batch was delivered, and an item is buffered.
FailureFollowedByDelivery ==
  \E i, j \in DOMAIN uploads :
    /\ i < j
    /\ uploads[i].status = "failed"
    /\ uploads[j].status = "ok"
    /\ Buffered > 0

\* C9: right after stop() (called directly or on the cap-reached path) the
\* engine is inactive and no timer is armed: none of the timers armed before
\* the call can fire any more.
StopDisarmsTimers ==
  [][Stop => /\ ~isActive'
             /\ timers' = {}
             /\ flushTimer' = Null
             /\ periodicCaptureTimer' = Null
             /\ idleTimer' = Null]_vars

\* Periodic capture had been started (which arms the capture interval and
\* the idle timeout) and frames were taken; the engine is now stopped with
\* no timer left.
StoppedWithNoTimer ==
  /\ ~isActive
  /\ periodicCaptureRef
  /\ frameCount > 0
  /\ timers = {}

\* C10: stop() hands everything that is buffered to an upload batch, so the
\* buffers of an engine that was just stopped are empty.
StopFlushesEverything ==
  [][Stop => /\ frames' = <<>>
             /\ taps' = <<>>
             /\ scrolls' = <<>>
             /\ navigations' = <<>>]_vars

\* C11: capture() or captureImmediate() called while the engine is active
\* and frameCount >= maxFrames starts no screenshot, leaves frameCount and
\* lastCaptureTs as they were, and runs stop(): the engine is inactive, no
\* timer is armed, and flush() has run (a batch with everything buffered is
\* handed over unless an upload is pending or nothing is buffered).
CapReachedStops ==
  (isActive /\ frameCount >= opts.maxFrames) =>
    \A r \in {capture(Cur), captureImmediate(Cur)} :
      /\ r.shots = shots
      /\ r.frameCount = frameCount
      /\ r.lastCaptureTs = lastCaptureTs
      /\ ~r.isActive
      /\ r.timers = {}
      /\ r.flushTimer = Null
      /\ r.periodicCaptureTimer = Null
      /\ r.idleTimer = Null
      /\ IF Buffered > 0 /\ ~isFlushing
         THEN /\ r.uploads = Append(uploads,
                    [frames |-> frames, taps |-> taps, scrolls |-> scrolls,
                     navigations |-> navigations, userId |-> opts.userId,
                status |-> "pending"])
              /\ r.isFlushing
              /\ r.frames = <<>> /\ r.taps = <<>>
              /\ r.scrolls = <<>> /\ r.navigations = <<>>
         ELSE /\ r.uploads = uploads
              /\ r.isFlushing = isFlushing
              /\ r.frames = frames /\ r.taps = taps
              /\ r.scrolls = scrolls /\ r.navigations = navigations

\* An engine with periodic capture started is stopped with its whole budget
\* of frames in one pending batch, no attempt in flight and no timer armed.
StoppedWithFullBudgetFlushed ==
  /\ ~isActive
  /\ opts.maxFrames >= 2
  /\ frameCount = opts.maxFrames
  /\ shots = <<>>
  /\ periodicCaptureRef
  /\ timers = {}
  /\ \E i \in Pending(uploads) : Len(uploads[i].frames) = opts.maxFrames

\* The engine and its environment after a call are what they were before it.
Untouched(r) == [r EXCEPT !.res = "none", !.fl = "none", !.promise = "none"] = Cur

\* C12: while the engine is inactive, capture, captureImmediate,
\* registerTap, registerScroll and registerNavigation change nothing: the
\* four buffers, frameCount, lastCaptureTs, the idle flag, the timers and
\* every other field are after the call what they were before it.
InactiveCallsAreNoOps ==
  ~isActive =>
    \A r \in {capture(Cur), captureImmediate(Cur), registerTap(Cur),
              registerScroll(Cur), registerNavigation(Cur)} :
      /\ r.res = "inactive"
      /\ Untouched(r)

\* A stopped engine that has something to lose: an item is buffered, frames
\* were counted, the idle flag is set and the capture interval is armed.
InactiveWithStateToKeep ==
  /\ ~isActive
  /\ isIdle
  /\ periodicCaptureTimer # Null
  /\ Buffered > 0
  /\ frameCount > 0

\* C13: when a screenshot attempt fails, frameCount goes down by one (the
\* increment made when the attempt began is undone), no frame is appended,
\* the promise of capture/captureImmediate is fulfilled, not rejected, and
\* the engine is as active as before: if active, it is below the cap and
\* the next captureImmediate() starts an attempt.
FailedScreenshotIsCompensated ==
  [][ScreenshotFails
       => /\ frameCount' = frameCount - 1
          /\ frameCount' = (nextFrameId - 1) + Len(shots')
          /\ frames' = frames
          /\ nextFrameId' = nextFrameId
          /\ \A i \in DOMAIN shots :
                doCaptureSettle(Cur, i, FALSE).promise = "fulfilled"
          /\ isActive' = isActive
          /\ isActive' => /\ frameCount' < opts.maxFrames
                          /\ (captureImmediate(Cur).res = "shot")']_vars

\* The only attempt made so far has failed: the engine is active, nothing
\* is buffered or in flight, and the count is back at zero.
FailedAttemptLeftNoTrace ==
  /\ isActive
  /\ lastCaptureTs >= StartTime
  /\ frameCount = 0
  /\ shots = <<>>
  /\ nextFrameId = 1

\* C14: in every reachable state frameCount is the number of frames
\* buffered since construction plus the number of screenshot attempts in
\* flight (so with none in flight it is the number of successful captures),
\* and it goes down only by one, in the step where an attempt fails.
FrameCountIsSuccessesPlusInFlight ==
  /\ [](frameCount = (nextFrameId - 1) + Len(shots))
  /\ [][frameCount' < frameCount
          => /\ ScreenshotFails
             /\ frameCount' = frameCount - 1]_vars

\* A frame was delivered to a batch, another attempt is in flight, and the
\* engine has been stopped: the count is two.
CountsDeliveredFrameAndAttempt ==
  /\ ~isActive
  /\ nextFrameId = 2
  /\ Len(shots) = 1
  /\ frameCount = 2
  /\ \E i \in DOMAIN uploads : Len(uploads[i].frames) = 1

StartResetsIdleClock ==
  /\ start(Cur).isActive
  /\ ~start(Cur).isIdle
  /\ {t \in start(Cur).timers : t.kind = "flush"}
        = {[id |-> start(Cur).flushTimer, kind |-> "flush", due |-> Null]}
  /\ isIdle => now - lastInteractionTs >= opts.idleTimeoutMs

\* q grew by exactly one item, at its end.
OneAppended(q, r) == Len(r) = Len(q) + 1 /\ SubSeq(r, 1, Len(q)) = q

\* The idle window of r starts at the current time: the engine is not idle
\* and its one idle timeout is due idleTimeoutMs from now.
IdleWindowRestarted(r) ==
  /\ ~r.isIdle
  /\ r.lastInteractionTs = now
  /\ {t \in r.timers : t.kind = "idle"}
        = IF opts.idleTimeoutMs > 0
          THEN {[id |-> r.idleTimer, kind |-> "idle",
                 due |-> now + opts.idleTimeoutMs]}
          ELSE {}

\* frames, frameCount, lastCaptureTs and the attempts in flight are as before.
CaptureStateKept(r) ==
  /\ r.frames = frames
  /\ r.frameCount = frameCount
  /\ r.lastCaptureTs = lastCaptureTs
  /\ r.shots = shots

\* C17: on an active engine registerTap, registerScroll and
\* registerNavigation each append exactly one event at the end of their own
\* buffer, leave the other three buffers, frameCount and lastCaptureTs as
\* they were, and restart the idle window from the call.
RegisterAppendsAndResetsIdle ==
  isActive =>
    /\ OneAppended(taps, registerTap(Cur).taps)
    /\ registerTap(Cur).scrolls = scrolls
    /\ registerTap(Cur).navigations = navigations
    /\ CaptureStateKept(registerTap(Cur))
    /\ IdleWindowRestarted(registerTap(Cur))
    /\ OneAppended(scrolls, registerScroll(Cur).scrolls)
    /\ registerScroll(Cur).taps = taps
    /\ registerScroll(Cur).navigations = navigations
    /\ CaptureStateKept(registerScroll(Cur))
    /\ IdleWindowRestarted(registerScroll(Cur))
    /\ OneAppended(navigations, registerNavigation(Cur).navigations)
    /\ registerNavigation(Cur).taps = taps
    /\ registerNavigation(Cur).scrolls = scrolls
    /\ CaptureStateKept(registerNavigation(Cur))
    /\ IdleWindowRestarted(registerNavigation(Cur))

\* An event was registered after the clock had moved, on an engine that has
\* counted frames: its idle timeout, armed by that call alone (periodic
\* capture was never started), is due a full window from now.
EventRegisteredLater ==
  /\ isActive
  /\ ~periodicCaptureRef
  /\ now > StartTime
  /\ frameCount > 0
  /\ Len(taps) + Len(scrolls) + Len(navigations) >= 1
  /\ \E t \in timers : t.kind = "idle" /\ t.due = now + opts.idleTimeoutMs

\* C18: with idleTimeoutMs > 0, an active engine with periodic capture
\* running that is not idle has an idle timeout pending, due within
\* idleTimeoutMs: unless an interaction re-arms it, the host runs it no
\* later than that.  When it runs the engine is idle, and while the engine
\* is idle the periodic tick takes no screenshot.
IdleAfterTimeoutWithoutInteraction ==
  /\ (isActive /\ periodicCaptureTimer # Null /\ ~isIdle
         /\ opts.idleTimeoutMs > 0)
       => \E t \in timers : /\ t.kind = "idle"
                            /\ t.id = idleTimer
                            /\ t.due <= now + opts.idleTimeoutMs
  /\ \A t \in timers :
       (t.kind = "idle" /\ t.due <= now)
         => idleTimerCallback([Cur EXCEPT !.timers = @ \ {t}]).isIdle
  /\ isIdle => Untouched(periodicCaptureCallback(Cur))

\* C19: a tick of the periodic capture timer starts a screenshot exactly
\* when the engine is active, not idle, below the cap and outside the
\* throttle window, and then does what capture() does; capture() and
\* captureImmediate() do on an idle engine what they do on the same engine
\* not idle.
IdlePausesPeriodicCaptureOnly ==
  /\ (\E t \in timers : t.kind = "capture")
       => /\ (Len(periodicCaptureCallback(Cur).shots) = Len(shots) + 1)
               <=> (/\ isActive
                    /\ ~isIdle
                    /\ frameCount < opts.maxFrames
                    /\ now - lastCaptureTs >= opts.throttleMs)
          /\ Len(periodicCaptureCallback(Cur).shots) \in {Len(shots), Len(shots) + 1}
          /\ (isActive /\ ~isIdle)
               => periodicCaptureCallback(Cur) = capture(Cur)
  /\ capture([Cur EXCEPT !.isIdle = TRUE])
       = [capture([Cur EXCEPT !.isIdle = FALSE]) EXCEPT !.isIdle = TRUE]
  /\ captureImmediate([Cur EXCEPT !.isIdle = TRUE])
       = [captureImmediate([Cur EXCEPT !.isIdle = FALSE]) EXCEPT !.isIdle = TRUE]
  /\ (isActive /\ isIdle /\ frameCount < opts.maxFrames)
       => Len(captureImmediate(Cur).shots) = Len(shots) + 1

\* An idle engine with the capture interval armed has taken a frame before
\* and is below the cap and outside the throttle window: only the idle flag
\* keeps the tick from capturing.
IdleEngineCouldCapture ==
  /\ isActive
  /\ isIdle
  /\ \E t \in timers : t.kind = "capture"
  /\ frameCount >= 1
  /\ frameCount < opts.maxFrames
  /\ now - lastCaptureTs >= opts.throttleMs

\* The capture interval of r is armed, once, under the handle r holds.
CaptureIntervalArmed(r) ==
  /\ r.periodicCaptureTimer # Null
  /\ {t \in r.timers : t.kind = "capture"}
        = {[id |-> r.periodicCaptureTimer, kind |-> "capture", due |-> Null]}

\* C20 as stated: any registerTap / registerScroll / registerNavigation on
\* an active idle engine clears the idle flag, arms the periodic capture
\* timer and restarts the idle window.
InteractionWhileIdleRearmsCapture ==
  (isActive /\ isIdle) =>
    \A r \in {registerTap(Cur), registerScroll(Cur), registerNavigation(Cur)} :
      /\ ~r.isIdle
      /\ CaptureIntervalArmed(r)
      /\ IdleWindowRestarted(r)

\* C20, amended: any registerTap / registerScroll / registerNavigation on
\* an active idle engine clears the idle flag and restarts the idle window;
\* if periodic capture had been started (startPeriodicCapture was given a
\* ref, periodicCaptureMs > 0) it arms the periodic capture timer, whose
\* next tick is a capture() again; otherwise no capture timer is armed.
InteractionWhileIdleResumesStartedCapture ==
  (isActive /\ isIdle) =>
    \A r \in {registerTap(Cur), registerScroll(Cur), registerNavigation(Cur)} :
      /\ ~r.isIdle
      /\ IdleWindowRestarted(r)
      /\ IF periodicCaptureRef /\ opts.periodicCaptureMs > 0
         THEN /\ CaptureIntervalArmed(r)
              /\ periodicCaptureCallback(r) = capture(r)
         ELSE /\ r.periodicCaptureTimer = periodicCaptureTimer
              /\ {t \in r.timers : t.kind = "capture"}
                    = {t \in timers : t.kind = "capture"}

\* An active engine is idle; periodic capture had been started, and its
\* interval was cleared by a stop() since: the next interaction arms it.
IdleWithCaptureIntervalCleared ==
  /\ isActive
  /\ isIdle
  /\ periodicCaptureRef
  /\ periodicCaptureTimer = Null

\* v is the number a / b.
IsQuotient(v, a, b) == v[2] > 0 /\ v[1] * b = a * v[2]

\* C21: registerTap on an active engine buffers one tap.  If the tap does
\* not carry both normalised coordinates as numbers and the device
\* dimensions are set, the buffered tap has normalizedX = x / deviceWidth
\* and normalizedY = y / deviceHeight and every other field as given;
\* if it carries both, or the dimensions are unknown, it is the tap as given.
TapNormalizedOnlyWhenDerivable ==
  isActive =>
    \A tap \in TapEvents :
      LET given == [tap EXCEPT !.id = nextEventId]
          r == registerTapEvent(Cur, tap)
          b == r.taps[Len(r.taps)]
      IN  /\ OneAppended(taps, r.taps)
          /\ IF deviceInfo # NoDeviceInfo
                /\ ~(IsNumber(tap.normalizedX) /\ IsNumber(tap.normalizedY))
             THEN /\ IsQuotient(b.normalizedX, tap.x, deviceInfo.deviceWidth)
                  /\ IsQuotient(b.normalizedY, tap.y, deviceInfo.deviceHeight)
                  /\ [b EXCEPT !.normalizedX = given.normalizedX,
                               !.normalizedY = given.normalizedY] = given
             ELSE b = given

\* With the device two units wide and high, a tap at x = 1, y = 0 that came
\* without normalised coordinates is buffered with 1/2 and 0.
TapBufferedWithDerivedCoordinates ==
  /\ deviceInfo # NoDeviceInfo
  /\ \E k \in DOMAIN taps :
       /\ taps[k].x = 1
       /\ taps[k].y = 0
       /\ taps[k].normalizedX = <<1, 2>>
       /\ taps[k].normalizedY = <<0, 1>>

\* C22: shouldSample is deterministic (every call on the same userId and
\* rate returned what a further call returns) and returns FALSE for every
\* rate <= 0 and TRUE for every rate >= 1, whatever the userId.
SamplingIsDeterministicAndClamped ==
  \A k \in DOMAIN sampled :
    /\ sampled[k] = shouldSample(userId, rate)
    /\ rate[1] <= 0 => sampled[k] = FALSE
    /\ rate[1] >= rate[2] => sampled[k] = TRUE

\* shouldSample was called twice at rate 0 on the empty userId, whose
\* bucket is 0, and returned FALSE.
SampledTwiceAtRateZero ==
  /\ Len(sampled) = 2
  /\ userId = <<>>
  /\ rate[1] = 0
  /\ sampled[1] = FALSE

\* How often the character code c occurs in id.
Occurrences(id, c) == Cardinality({k \in DOMAIN id : id[k] = c})

\* v is made of the characters of id, each as often as in id.
SameCharacters(v, id) ==
  /\ Len(v) = Len(id)
  /\ \A c \in CharCodes : Occurrences(v, c) = Occurrences(id, c)

\* The sum of the character codes of id, from how often each code occurs.
RECURSIVE CodeTotal(_, _)
CodeTotal(id, codes) ==
  IF codes = {} THEN 0
  ELSE LET c == CHOOSE c \in codes : TRUE
       IN  c * Occurrences(id, c) + CodeTotal(id, codes \ {c})

StrictlyBetween0And1(r) == 0 < r[1] /\ r[1] < r[2]

\* C23 as stated: for 0 < rate < 1 the result is (h mod 100)/100 < rate, and
\* the bucket h mod 100 depends on the order of the characters: a userId of
\* two or more different characters has a reordering in another bucket.
BucketDependsOnCharacterOrder ==
  \A k \in DOMAIN sampled :
    StrictlyBetween0And1(rate) =>
      /\ sampled[k] = ((hash(userId) % 100) * rate[2] < 100 * rate[1])
      /\ (\E i, j \in DOMAIN userId : userId[i] # userId[j]) =>
           \E v \in UserIds :
             /\ SameCharacters(v, userId)
             /\ hash(v) % 100 # hash(userId) % 100

\* C23, amended: for 0 < rate < 1 the result is (h mod 100)/100 < rate with
\* h the sum of the character codes of userId, so every userId made of the
\* same characters in another order gets the same result.
BucketIsSumOfCharacterCodes ==
  \A k \in DOMAIN sampled :
    StrictlyBetween0And1(rate) =>
      /\ sampled[k] =
           ((CodeTotal(userId, CharCodes) % 100) * rate[2] < 100 * rate[1])
      /\ \A v \in UserIds :
           SameCharacters(v, userId) =>
             /\ hash(v) = hash(userId)
             /\ shouldSample(v, rate) = sampled[k]

\* shouldSample returned TRUE for the userId "u0" at rate 3/4: the codes
\* 117 and 48 add up to 165, bucket 65.
SampledUserWithTwoCharacters ==
  /\ sampled = <<TRUE>>
  /\ userId = <<117, 48>>
  /\ rate = <<3, 4>>

\* The distance of frame i from the timestamp t, scaled by t[2].
Distance(frames_, i, t) == Abs(At(frames_, i).timestamp * t[2] - t[1])

\* The indices of the frames whose timestamp is t or later.
AtOrAfter(frames_, t) ==
  {i \in 0..(Len(frames_) - 1) : At(frames_, i).timestamp * t[2] >= t[1]}

LowestOf(S) == CHOOSE i \in S : \A j \in S : i <= j

\* C24: on non-empty frames in non-decreasing timestamp order the index
\* found for t is one whose timestamp is nearest to t; where a frame at or
\* after t exists, the index is the lowest such index or the one before
\* it, and the one before it when both are equally close.
FoundFrameIsNearest ==
  found # -1 =>
    LET fs == current.frames
        t == timestamp
    IN  /\ found \in 0..(Len(fs) - 1)
        /\ \A i \in 0..(Len(fs) - 1) : Distance(fs, found, t) <= Distance(fs, i, t)
        /\ AtOrAfter(fs, t) # {} =>
             LET c == LowestOf(AtOrAfter(fs, t))
             IN  /\ found \in {c, c - 1}
                 /\ (c > 0 /\ Distance(fs, c - 1, t) = Distance(fs, c, t))
                      => found = c - 1

\* Looked up half way between the timestamps 1 and 2 of the second and the
\* third of three frames: the second frame (index 1) was found.
FoundPredecessorOnTie ==
  /\ current = [frames |-> FramesAt(<<0, 1, 2>>)]
  /\ timestamp = <<3, 2>>
  /\ found = 1

\* C25: on non-empty frames in non-decreasing timestamp order the index
\* found is 0 for a t before the first timestamp and the last index for a
\* t after the last timestamp; on the timestamps 100, 200, 400 it is 1 for
\* t = 260 and 2 for t = 310.
FoundFirstBeforeAndLastAfter ==
  /\ found # -1 =>
       LET fs == current.frames
           t == timestamp
           last == Len(fs) - 1
       IN  /\ t[1] < At(fs, 0).timestamp * t[2] => found = 0
           /\ t[1] > At(fs, last).timestamp * t[2] => found = last
  /\ findFrameIndexForTimestamp(FramesAt(<<100, 200, 400>>), <<260, 1>>) = 1
  /\ findFrameIndexForTimestamp(FramesAt(<<100, 200, 400>>), <<310, 1>>) = 2

\* The largest index i >= s0 whose frame is due e milliseconds after the
\* start at frame s0, at the rate r: timestamp(i) - timestamp(s0) <= e * r.
LargestDue(frames_, s0, e, r) ==
  LET due == {i \in s0..(Len(frames_) - 1) :
                (At(frames_, i).timestamp - At(frames_, s0).timestamp) * r[2]
                  <= e * r[1]}
  IN  CHOOSE i \in due : \A j \in due : j <= i

\* The dashboard with the session of timestamps ts loaded, at frame 0.
Loaded(ts) ==
  [current |-> [frames |-> FramesAt(ts)], frameIdx |-> 0, playing |-> FALSE,
   playbackRate |-> <<1, 1>>, scrubbing |-> FALSE, rafRef |-> Null,
   raf |-> {}, perfNow |-> 0, thrown |-> "none"]

\* v after the one scheduled loop callback has run at the time t.
AfterCallbackAt(v, t) ==
  LET cb == CHOOSE cb \in v.raf : TRUE
  IN  loop([v EXCEPT !.perfNow = t, !.raf = {}], cb)

\* C26: while playing from the start index s at the rate r, after a loop
\* callback that runs e milliseconds after play() the displayed index is
\* the largest i >= s with timestamp(i) - timestamp(s) <= e * r, whenever
\* and however often callbacks ran before; on the timestamps 0, 500, 1200
\* from frame 0 at rate 1 it is 1 after 600 ms and 2 after 1300 ms, with
\* playback stopped.
DisplayedIndexFollowsElapsedTime ==
  /\ \A cb \in raf :
       loop([App EXCEPT !.raf = @ \ {cb}], cb).frameIdx
         = LargestDue(cb.frames, cb.startIndex, perfNow - cb.startTime,
                      cb.playbackRate)
  /\ (~playing /\ current.frames # <<>>) =>
       play(App).frameIdx = LargestDue(current.frames, frameIdx, 0, playbackRate)
  /\ LET v1 == play(Loaded(<<0, 500, 1200>>))
         v2 == AfterCallbackAt(v1, 600)
         v3 == AfterCallbackAt(v2, 1300)
     IN  /\ v2.frameIdx = 1 /\ v2.playing
         /\ v3.frameIdx = 2 /\ ~v3.playing /\ v3.raf = {}
         /\ AfterCallbackAt(v1, 1300) = v3

\* C27: while a playback runs, the displayed index never goes back: not
\* in the step that starts it, not while it is playing, and not in the
\* step of the loop callback that ends it.
PlaybackNeverGoesBack ==
  [][(playing' \/ AnimationFrame) => frameIdx' >= frameIdx]_vars

\* C28: a loop callback whose computed index is the last index (the last
\* frame is due) leaves playing FALSE, the displayed index at the last
\* index and no loop callback scheduled or pending; so does play() when
\* the last frame is due at once.
PlaybackStopsAtLastFrame ==
  /\ \A cb \in raf :
       LET v == loop([App EXCEPT !.raf = @ \ {cb}], cb)
           last == Len(cb.frames) - 1
       IN  LargestDue(cb.frames, cb.startIndex, perfNow - cb.startTime,
                      cb.playbackRate) = last
             => /\ ~v.playing
                /\ v.frameIdx = last
                /\ v.raf = {}
                /\ v.rafRef = Null
  /\ (~playing /\ current.frames # <<>>) =>
       LET v == play(App)
           last == Len(current.frames) - 1
       IN  LargestDue(current.frames, frameIdx, 0, playbackRate) = last
             => /\ ~v.playing
                /\ v.frameIdx = last
                /\ v.raf = {}
                /\ v.rafRef = Null

\* A playback that started at frame 0 of three frames has a loop callback
\* scheduled that has not reached the last frame, and the last frame is due.
LastFrameDueWithCallbackPending ==
  /\ playing
  /\ \E cb \in raf :
       /\ Len(cb.frames) = 3
       /\ cb.startIndex = 0
       /\ cb.i < 2
       /\ LargestDue(cb.frames, 0, perfNow - cb.startTime, cb.playbackRate) = 2

\* C29: at most one loop callback is scheduled at any time, and a pause, a
\* loaded session and a manual seek (pointer down, move or up on the
\* timeline that seeks) leave no loop callback scheduled; a new playback
\* leaves none of the callbacks scheduled before it.
OneLoopChainCancelledBeforeChange ==
  /\ [](Cardinality(raf) <= 1)
  /\ [][(\/ LoadSession
          \/ (playing /\ TogglePlay)
          \/ TimelinePointerDown
          \/ TimelinePointerMove
          \/ TimelinePointerUp) => raf' = {}]_vars
  /\ [][(~playing /\ TogglePlay) => raf' \cap raf = {}]_vars

\* The position the pointer at clientX stands for: clientX clamped to the
\* timeline, as a fraction of its width.
Position(clientX) == <<Min(TimelineWidth, Max(0, clientX)), TimelineWidth>>

\* first.timestamp + p * d as a fraction.
TargetAt(frames_, p, d) == <<At(frames_, 0).timestamp * p[2] + p[1] * d, p[2]>>

Span(frames_) == At(frames_, Len(frames_) - 1).timestamp - At(frames_, 0).timestamp

\* A timeline ten pixels wide.
TenWide == [left |-> 0, right |-> 10, width |-> 10]

\* C30 as stated: a seek at the position p in [0, 1] sets the displayed
\* index to findFrameIndexForTimestamp(frames, target) with target =
\* first.timestamp + p * (last.timestamp - first.timestamp); p = 0.7 on a
\* session spanning 1000 to 9000 gives the target 6600.
SeekTargetsPositionInSpan ==
  /\ current.frames # <<>> =>
       \A x \in ClientXs :
         seekFromClientX(App, x, TimelineRect).frameIdx
           = findFrameIndexForTimestamp(
               current.frames,
               TargetAt(current.frames, Position(x), Span(current.frames)))
  /\ LET t == targetTimestamp(Loaded(<<1000, 9000>>), 7, TenWide)
     IN  t[1] = 6600 * t[2]

\* C30, amended: the target is first.timestamp + p * d, where d is
\* last.timestamp - first.timestamp, or 1 when that difference is 0; the
\* seek changes nothing but the displayed index.
SeekTargetsPositionInDuration ==
  /\ current.frames # <<>> =>
       \A x \in ClientXs :
         LET d == IF Span(current.frames) = 0 THEN 1 ELSE Span(current.frames)
             v == seekFromClientX(App, x, TimelineRect)
         IN  /\ v.frameIdx
                  = findFrameIndexForTimestamp(
                      current.frames, TargetAt(current.frames, Position(x), d))
             /\ [v EXCEPT !.frameIdx = frameIdx] = App
  /\ LET t == targetTimestamp(Loaded(<<1000, 9000>>), 7, TenWide)
         v == seekFromClientX(Loaded(<<1000, 9000>>), 7, TenWide)
     IN  t[1] = 6600 * t[2] /\ v.frameIdx = 1

\* A scrub stands at the second of three frames that share one timestamp.
ScrubbedInSessionWithoutDuration ==
  /\ scrubbing
  /\ Len(current.frames) = 3
  /\ Span(current.frames) = 0
  /\ frameIdx = 1

\* C31: a change of the playback rate while playing restarts the playback
\* clock at the moment of the change, from the displayed index: the loop
\* callback scheduled after the change starts at that moment (so no time
\* elapsed before is applied at the new rate), starts from the displayed
\* index, and advances at the new rate.
RateChangeRestartsClock ==
  [][(playing /\ playbackRate' # playbackRate) =>
       /\ playing'
       /\ raf' # {}
       /\ \A cb \in raf' :
            /\ cb.playbackRate = playbackRate'
            /\ cb.startTime = perfNow'
            /\ cb.startIndex = frameIdx'
            /\ cb.i = frameIdx']_vars

\* C32 as stated: on a session without frames, play, a seek by position and
\* findFrameIndexForTimestamp each fail with an error.
EmptySessionCallsFailFast ==
  current.frames = <<>> =>
    /\ play(App).thrown # "none"
    /\ \A x \in ClientXs : seekFromClientX(App, x, TimelineRect).thrown # "none"
    /\ \A t \in TimestampsAsked : findFrameIndexThrows(current.frames, t)

\* C32, amended: on a session without frames, play and a seek by position
\* return without an error and leave everything as it is, also when called
\* through the play button and the timeline handlers (a pointer down only
\* starts the scrub); findFrameIndexForTimestamp throws, and only there.
EmptySessionCallsDoNothing ==
  /\ current.frames = <<>> =>
       /\ play(App) = App
       /\ handleTogglePlay([App EXCEPT !.playing = FALSE]) = [App EXCEPT !.playing = FALSE]
       /\ \A x \in ClientXs :
            /\ seekFromClientX(App, x, TimelineRect) = App
            /\ handleTimelinePointerMove(App, x) = App
            /\ handleTimelinePointerDown(App, x)
                 = [App EXCEPT !.scrubbing = TRUE, !.playing = FALSE]
       /\ \A t \in TimestampsAsked : findFrameIndexThrows(current.frames, t)
  /\ current.frames # <<>> =>
       \A t \in TimestampsAsked : ~findFrameIndexThrows(current.frames, t)

\* A pointer went down on the timeline of a session without frames, after
\* a session with frames had been shown: the scrub has begun and the seek
\* did nothing.
ScrubbedInSessionWithoutFrames ==
  /\ current.frames = <<>>
  /\ scrubbing
  /\ perfNow > 0
  /\ ~playing

\* ── C33 ────────────────────────────────────────────────────────────────
\* C33: after setUserId(u) a flush that starts a batch gives it the userId u
\* together with everything buffered before the call, every new batch
\* carries the userId the engine holds when its flush begins, and a batch
\* that was already created keeps the userId it was created with.
BatchCarriesUserIdOfItsFlush ==
  /\ [](\A id \in KnownUserIds :
          LET r == flush(setUserId(Cur, id))
          IN  Buffered > 0 /\ ~isFlushing
                => /\ Len(r.uploads) = Len(uploads) + 1
                   /\ r.uploads[Len(r.uploads)].userId = id
                   /\ r.uploads[Len(r.uploads)].frames = frames
                   /\ r.uploads[Len(r.uploads)].taps = taps
                   /\ r.uploads[Len(r.uploads)].scrolls = scrolls
                   /\ r.uploads[Len(r.uploads)].navigations = navigations)
  /\ [][/\ Len(uploads') >= Len(uploads)
        /\ \A k \in 1..Len(uploads) : uploads'[k].userId = uploads[k].userId
        /\ Len(uploads') > Len(uploads)
             => uploads'[Len(uploads')].userId = opts.userId]_vars

\* A batch with a tap was created for an identified user and is still in
\* flight after identify() was called again with another userId.
BatchInFlightAfterSecondIdentify ==
  \E k \in 1..Len(uploads) :
    /\ uploads[k].status = "pending"
    /\ uploads[k].userId \in KnownUserIds
    /\ Len(uploads[k].taps) > 0
    /\ opts.userId \in KnownUserIds \ {uploads[k].userId}

\* ── C34 ────────────────────────────────────────────────────────────────
\* The field of every batch, one after the other in the order of the batches.
RECURSIVE Concatenated(_, _)
Concatenated(batches, field) ==
  IF batches = <<>> THEN <<>>
  ELSE Head(batches)[field] \o Concatenated(Tail(batches), field)

\* The field of the last batch in which it is not empty, if there is one.
RECURSIVE LatestNonEmpty(_, _)
LatestNonEmpty(batches, field) ==
  IF batches = <<>> THEN Null
  ELSE IF batches[Len(batches)][field] # Null THEN batches[Len(batches)][field]
  ELSE LatestNonEmpty(SubSeq(batches, 1, Len(batches) - 1), field)

\* C34: each array of the stored session (frames, taps, scrolls,
\* navigations) is the concatenation, in the order of arrival, of that array
\* of all the batches received for the sessionId, and deviceWidth and
\* deviceHeight hold the latest value that was not empty.
StoredSessionIsConcatenation ==
  \A id \in DOMAIN sessionFiles :
    LET file == sessionFiles[id]
    IN  /\ file.frames = Concatenated(arrived, "frames")
        /\ file.taps = Concatenated(arrived, "taps")
        /\ file.scrolls = Concatenated(arrived, "scrolls")
        /\ file.navigations = Concatenated(arrived, "navigations")
        /\ file.deviceWidth = LatestNonEmpty(arrived, "deviceWidth")
        /\ file.deviceHeight = LatestNonEmpty(arrived, "deviceHeight")

\* The same without the navigations: what the handler does keep.
StoredSessionKeepsAllButNavigations ==
  \A id \in DOMAIN sessionFiles :
    LET file == sessionFiles[id]
    IN  /\ file.frames = Concatenated(arrived, "frames")
        /\ file.taps = Concatenated(arrived, "taps")
        /\ file.scrolls = Concatenated(arrived, "scrolls")
        /\ file.navigations = arrived[1].navigations
        /\ file.deviceWidth = LatestNonEmpty(arrived, "deviceWidth")
        /\ file.deviceHeight = LatestNonEmpty(arrived, "deviceHeight")

\* ── C35 ────────────────────────────────────────────────────────────────
\* The frames handed to the network so far, batch after batch as the
\* collector concatenates them, followed by the frames still buffered.
FramesSoFar == Concatenated(uploads, "frames") \o frames

\* C35: frames are appended in capture order: within each batch and across
\* successive batches the frame timestamps never decrease, whatever the
\* interleaving of capture calls, screenshot completions and flushes.
FramesInCaptureOrder ==
  \A j, k \in 1..Len(FramesSoFar) :
    j < k => FramesSoFar[j].timestamp <= FramesSoFar[k].timestamp

\* ── C37 ────────────────────────────────────────────────────────────────
\* The screenshots that have succeeded since construction.
Succeeded == nextFrameId - 1

\* C37: a capture() or captureImmediate() takes the cap-reached path, and
\* stops the engine, only when maxFrames screenshots have succeeded: an
\* attempt still in flight, which may yet fail, does not count.
CapPathOnlyAfterMaxFramesSucceeded ==
  /\ capture(Cur).res = "cap" => Succeeded >= opts.maxFrames
  /\ captureImmediate(Cur).res = "cap" => Succeeded >= opts.maxFrames

\* ── C38 ────────────────────────────────────────────────────────────────
\* C38: while the engine is inactive, from stop() to the next start(), no
\* buffer grows: no frame and no event is appended, not even the frame of a
\* screenshot that was in flight when stop() was called.
BuffersFrozenWhileInactive ==
  [][~isActive /\ ~isActive'
       => /\ Len(frames') <= Len(frames)
          /\ Len(taps') <= Len(taps)
          /\ Len(scrolls') <= Len(scrolls)
          /\ Len(navigations') <= Len(navigations)]_vars

\* ── C39 ────────────────────────────────────────────────────────────────
\* The states the engine can be in some time after it was in state s: as
\* it is, or with one of the screenshots in flight settled either way.
SoonAfter(s) ==
  {s} \cup {doCaptureSettle(s, i, ok) : i \in 1..Len(s.shots), ok \in BOOLEAN}

\* C39: the hard cap bounds the whole lifetime: frameCount is never reset,
\* so over any number of stop() / start() cycles at most maxFrames frames are
\* ever buffered, and after a stop that the cap triggered, a new start()
\* followed by a capture attempt takes no screenshot and stops the engine
\* again.
CapOutlivesRestart ==
  /\ Succeeded <= opts.maxFrames
  /\ \A stopped \in {capture(Cur), captureImmediate(Cur)} :
       stopped.res = "cap"
         => \A later \in SoonAfter(stopped) :
              \A again \in {capture(start(later)), captureImmediate(start(later))} :
                /\ again.res = "cap"
                /\ again.shots = later.shots
                /\ ~again.isActive

\* The same for the stops that the cap triggers with no screenshot in flight.
CapOutlivesRestartWhenNoneInFlight ==
  /\ Succeeded <= opts.maxFrames
  /\ \A stopped \in {capture(Cur), captureImmediate(Cur)} :
       stopped.res = "cap" /\ shots = <<>>
         => \A again \in {capture(start(stopped)), captureImmediate(start(stopped))} :
              /\ again.res = "cap"
              /\ again.shots = stopped.shots
              /\ ~again.isActive

\* ── C40 ────────────────────────────────────────────────────────────────
\* The timers of one kind that are armed in the host.
Armed(kind) == {t \in timers : t.kind = kind}

\* C40: in every reachable state at most one flush interval, at most one
\* periodic-capture interval and at most one idle timeout are armed, and
\* each of them is the one whose handle the engine holds: arming a timer
\* again clears the one armed before, so no timer is left running without
\* a handle.
AtMostOneTimerOfEachKind ==
  /\ Cardinality(Armed("flush")) <= 1
  /\ Cardinality(Armed("capture")) <= 1
  /\ Cardinality(Armed("idle")) <= 1
  /\ \A t \in Armed("flush") : t.id = flushTimer
  /\ \A t \in Armed("capture") : t.id = periodicCaptureTimer
  /\ \A t \in Armed("idle") : t.id = idleTimer

\* The three timers are armed at once, and the idle timeout is one that was
\* armed again after time had passed.
AllTimersArmedAgain ==
  /\ Cardinality(Armed("flush")) = 1
  /\ Cardinality(Armed("capture")) = 1
  /\ \E t \in Armed("idle") : t.due > StartTime + IdleTimeoutMs

\* ── C36 ────────────────────────────────────────────────────────────────
\* The item with identity id is in the sequence q.
Holds(q, id) == \E k \in DOMAIN q : q[k].id = id

FrameHandedOver(id) == \E i \in DOMAIN uploads : Holds(uploads[i].frames, id)

EventBuffered(id) == Holds(taps, id) \/ Holds(scrolls, id) \/ Holds(navigations, id)

EventHandedOver(id) ==
  \E i \in DOMAIN uploads :
    \/ Holds(uploads[i].taps, id)
    \/ Holds(uploads[i].scrolls, id)
    \/ Holds(uploads[i].navigations, id)

\* C36: while the engine stays active, and with the flush timer firing and
\* every upload settling in the end, every frame and every event that is in
\* a buffer is eventually part of a batch handed to the network: a tick
\* that found a flush in flight is made up by a later one.
BufferedItemsAreEventuallyHandedOver ==
  /\ \A id \in 1..MaxFramesBound :
       (isActive /\ Holds(frames, id)) ~> (~isActive \/ FrameHandedOver(id))
  /\ \A id \in 1..MaxEvents :
       (isActive /\ EventBuffered(id)) ~> (~isActive \/ EventHandedOver(id))

\* The engine is active, a first batch has settled, and a frame buffered
\* since then has been handed over in a second batch.
SecondBatchHandedOver ==
  /\ isActive
  /\ Len(uploads) >= 2
  /\ uploads[1].status # "pending"
  /\ Len(uploads[2].frames) > 0

====
